---- MODULE Spec2Model ----
(***************************************************************************)
(* Tic-Tac-Toe reinforcement-learning core: the board (Board.py), the      *)
(* agents (Agents.py), the episode driver (game_manager.py), the training  *)
(* loop (trainer.py) and the evaluation games of main.py.                  *)
(*                                                                         *)
(* A board is a tuple of 9 cells; cell index i (0..8) of the source is     *)
(* position i+1 of the tuple.  Cell values: 0 Empty, 1 PlayerA (X),        *)
(* -1 PlayerB (O).  Table values and rewards are exact rationals <<n, d>>  *)
(* in lowest terms (d > 0) standing for the source's floats.               *)
(***************************************************************************)
EXTENDS Integers, Sequences, FiniteSets, TLC

VARIABLES
    agent_x,          \* GameManager.agent_x: [kind, q_table, alpha, gamma, epsilon]
    agent_o,          \* GameManager.agent_o
    board,            \* GameManager.board
    current_player,   \* GameManager.current_player
    train,            \* play_game's parameter
    state,            \* play_game local: state
    action,           \* play_game local: action of the last iteration
    winner,           \* play_game local: winner
    done,             \* play_game local: done
    reward_x,         \* play_game local
    reward_o,         \* play_game local
    pc,               \* "idle", "loop" (head of the while loop), "returned";
                      \* "called" after a direct call of one method
    prev_board,       \* history: self.board as it was before the last applied move
    calls,            \* history: the agent-method calls of the last step, in order
    ret,              \* value returned by the last call, None until it returns
    rng_levels,       \* resolution of the random source (see RandomUnit)
    b_state,          \* Board.state
    b_current_player, \* Board.current_player
    b_last,           \* history: the last Board method call
    games_played,     \* history: the number of play_game calls that have returned
    t_pc,             \* Trainer: "none", "ready" (constructed), "loop" (head of
                      \* the for loop of train), "playing", "done", "raised",
                      \* "reported" (get_statistics has returned)
    episodes,         \* Trainer.episodes
    checkpoint_interval, \* Trainer.checkpoint_interval
    episode,          \* Trainer.train local: episode
    results,          \* Trainer.results
    temp_wins_x,      \* Trainer.train local
    temp_wins_o,      \* Trainer.train local
    temp_draws,       \* Trainer.train local
    history,          \* Trainer.history, as a sequence of checkpoint records
    stats             \* <<the value returned by the last get_statistics call>>

vars == <<agent_x, agent_o, board, current_player, train, state, action, winner,
          done, reward_x, reward_o, pc, prev_board, calls, ret, rng_levels,
          b_state, b_current_player, b_last, games_played, t_pc, episodes,
          checkpoint_interval, episode, results, temp_wins_x, temp_wins_o,
          temp_draws, history, stats>>

gameVars == <<agent_x, agent_o, board, current_player, train, state, action,
              winner, done, reward_x, reward_o, pc, prev_board, calls, ret,
              rng_levels, games_played>>

boardVars == <<b_state, b_current_player, b_last>>

trainerVars == <<t_pc, episodes, checkpoint_interval, episode, results,
                 temp_wins_x, temp_wins_o, temp_draws, history, stats>>

----------------------------------------------------------------------------
(* Bounds and constants *)

\* The random source is modelled with RandLevels equally spaced outcomes.
RandLevels == 2

\* The most play_game calls one GameManager is given in a row.
MaxGames == 2

\* The most episodes a Trainer is asked for: MaxShortRun when a learning
\* agent faces a Random agent, MaxEpisodes when it faces a Scripted agent,
\* MaxLongRun when no agent learns; and the greatest checkpoint interval.
MaxShortRun == 1

MaxEpisodes == 2

MaxLongRun == 4

MaxInterval == 2

\* Python's None (a value no cell index, mark or outcome takes).
None == -9

NumCells == 9

Cells == 0 .. (NumCells - 1)

Marks == {-1, 0, 1}

----------------------------------------------------------------------------
(* Exact rational arithmetic for the float expressions of Agents.py *)

Abs(x) == IF x < 0 THEN -x ELSE x

RECURSIVE GCD(_, _)
GCD(a, b) == IF b = 0 THEN a ELSE GCD(b, a % b)

Rat(n, d) == LET g == GCD(Abs(n), d) IN <<n \div g, d \div g>>

Zero == <<0, 1>>

One == <<1, 1>>

Half == <<1, 2>>

MinusOne == <<-1, 1>>

RAdd(p, q) == Rat(p[1] * q[2] + q[1] * p[2], p[2] * q[2])

RSub(p, q) == Rat(p[1] * q[2] - q[1] * p[2], p[2] * q[2])

RMul(p, q) == Rat(p[1] * q[1], p[2] * q[2])

RLess(p, q) == p[1] * q[2] < q[1] * p[2]

\* max(...) of a non-empty list of values
RECURSIVE RMax(_)
RMax(s) ==
    IF Len(s) = 1 THEN s[1]
    ELSE LET m == RMax(Tail(s)) IN IF RLess(s[1], m) THEN m ELSE s[1]

----------------------------------------------------------------------------
(* The random module *)

\* random.random(): a value of [0, 1), here one of rng_levels levels.
RandomUnit == { Rat(j, rng_levels) : j \in 0 .. (rng_levels - 1) }

\* random.choice(seq): seq[floor(random() * len(seq))], the possible results.
RandomChoice(seq) ==
    { seq[((u[1] * Len(seq)) \div u[2]) + 1] : u \in RandomUnit }

----------------------------------------------------------------------------
(* Boards *)

EmptyBoard == [i \in 1 .. NumCells |-> 0]

AllBoards == [1 .. NumCells -> Marks]

\* [i for i, v in enumerate(board) if v == 0]
available_moves(b) ==
    LET F[i \in 0 .. NumCells] ==
            IF i = 0 THEN << >>
            ELSE IF b[i] = 0 THEN Append(F[i - 1], i - 1) ELSE F[i - 1]
    IN  F[NumCells]

\* Board.available_moves
Board_available_moves(s) ==
    LET F[i \in 0 .. NumCells] ==
            IF i = 0 THEN << >>
            ELSE IF s[i] = 0 THEN Append(F[i - 1], i - 1) ELSE F[i - 1]
    IN  F[NumCells]

SeqToSet(s) == { s[i] : i \in 1 .. Len(s) }

\* np.concatenate([b, b.T, [b.diagonal()], [np.fliplr(b).diagonal()]])
Lines ==
    << <<0, 1, 2>>, <<3, 4, 5>>, <<6, 7, 8>>,
       <<0, 3, 6>>, <<1, 4, 7>>, <<2, 5, 8>>,
       <<0, 4, 8>>, <<2, 4, 6>> >>

\* np.all(line == p)
LineAll(b, l, p) == \A k \in 1 .. 3 : b[l[k] + 1] = p

\* the for loop of GameManager.check_winner, from line number i on
RECURSIVE ScanLines(_, _)
ScanLines(b, i) ==
    IF i > Len(Lines) THEN None
    ELSE IF LineAll(b, Lines[i], 1) THEN 1
    ELSE IF LineAll(b, Lines[i], -1) THEN -1
    ELSE ScanLines(b, i + 1)

\* mutant of check_winner: the anti-diagonal is not among the lines
check_winner_NoAntiDiagonal(b) ==
    IF \E i \in 1 .. (Len(Lines) - 1) : LineAll(b, Lines[i], 1) THEN 1
    ELSE IF \E i \in 1 .. (Len(Lines) - 1) : LineAll(b, Lines[i], -1) THEN -1
    ELSE IF \A i \in 1 .. NumCells : b[i] # 0 THEN 0
    ELSE None

\* mutant of check_winner: the full board is tested before the lines
check_winner_DrawFirst(b) ==
    IF \A i \in 1 .. NumCells : b[i] # 0 THEN 0
    ELSE ScanLines(b, 1)

\* mutant of check_winner: every line is tried for PlayerA before any line
\* is tried for PlayerB
check_winner_XFirst(b) ==
    IF \E i \in 1 .. Len(Lines) : LineAll(b, Lines[i], 1) THEN 1
    ELSE IF \E i \in 1 .. Len(Lines) : LineAll(b, Lines[i], -1) THEN -1
    ELSE IF \A i \in 1 .. NumCells : b[i] # 0 THEN 0
    ELSE None

\* GameManager.check_winner
check_winner(b) ==
    LET r == ScanLines(b, 1)
    IN  IF r # None THEN r
        ELSE IF \A i \in 1 .. NumCells : b[i] # 0 THEN 0
        ELSE None

\* the for loop of Board.check_winner, from line number i on
RECURSIVE BoardScanLines(_, _)
BoardScanLines(s, i) ==
    IF i > Len(Lines) THEN None
    ELSE IF LineAll(s, Lines[i], 1) THEN 1
    ELSE IF LineAll(s, Lines[i], -1) THEN -1
    ELSE BoardScanLines(s, i + 1)

\* mutant of Board_check_winner: a full board is not reported as a Draw
Board_check_winner_NoDraw(s) == BoardScanLines(s, 1)

\* Board.check_winner
Board_check_winner(s) ==
    LET r == BoardScanLines(s, 1)
    IN  IF r # None THEN r
        ELSE IF \A i \in 1 .. NumCells : s[i] # 0 THEN 0
        ELSE None

----------------------------------------------------------------------------
(* Agents *)

\* defaults of QLearningAgent.__init__ and SARSAAgent.__init__
DefaultAlpha == Rat(1, 10)

DefaultGamma == Rat(9, 10)

DefaultEpsilon == Rat(1, 5)

\* self.q_table = {}
EmptyTable == << >>

RandomAgent == [kind |-> "Random", q_table |-> EmptyTable,
                alpha |-> Zero, gamma |-> Zero, epsilon |-> Zero]

ScriptedAgent == [kind |-> "Scripted", q_table |-> EmptyTable,
                  alpha |-> Zero, gamma |-> Zero, epsilon |-> Zero]

QLearningAgent(alpha, gamma, epsilon) ==
    [kind |-> "QLearning", q_table |-> EmptyTable,
     alpha |-> alpha, gamma |-> gamma, epsilon |-> epsilon]

SARSAAgent(alpha, gamma, epsilon) ==
    [kind |-> "SARSA", q_table |-> EmptyTable,
     alpha |-> alpha, gamma |-> gamma, epsilon |-> epsilon]

\* isinstance(agent, (QLearningAgent, SARSAAgent))
IsLearner(ag) == ag.kind \in {"QLearning", "SARSA"}

\* get_state_key: tuple(state)
get_state_key(s) == [i \in 1 .. Len(s) |-> s[i]]

\* q_table.get(key, 0)
QGet(q, k) == IF k \in DOMAIN q THEN q[k] ELSE Zero

\* mutant of QSet: the table is rebuilt with the written key only
QSet_RebuildTable(q, k, v) == [x \in {k} |-> v]

\* q_table[key] = v
QSet(q, k, v) == [x \in (DOMAIN q) \cup {k} |-> IF x = k THEN v ELSE q[x]]

\* RandomAgent.choose_action: the possible results
Random_choose_action(st, avail) == RandomChoice(avail)

\* mutant of ScriptedLines: the three rows are examined before the columns
ScriptedLines_RowsFirst ==
    << <<0, 1, 2>>, <<3, 4, 5>>, <<6, 7, 8>>, <<0, 3, 6>>,
       <<1, 4, 7>>, <<2, 5, 8>>, <<0, 4, 8>>, <<2, 4, 6>> >>

\* the lines in the order ScriptedAgent's can_win examines them
ScriptedLines ==
    << <<0, 1, 2>>, <<0, 3, 6>>, <<3, 4, 5>>, <<1, 4, 7>>,
       <<6, 7, 8>>, <<2, 5, 8>>, <<0, 4, 8>>, <<2, 4, 6>> >>

\* np.sum(line) == 2 * player and 0 in line
LineQualifies(b, l, player) ==
    /\ b[l[1] + 1] + b[l[2] + 1] + b[l[3] + 1] = 2 * player
    /\ \E k \in 1 .. 3 : b[l[k] + 1] = 0

\* np.where(line == 0)[0][0], as the cell it stands for
FirstZero(b, l) ==
    l[CHOOSE k \in 1 .. 3 :
        /\ b[l[k] + 1] = 0
        /\ \A j \in 1 .. (k - 1) : b[l[j] + 1] # 0]

\* can_win(player) of ScriptedAgent.choose_action, from line number i on;
\* the (row, col) pair it returns is given as the cell row * 3 + col
RECURSIVE CanWinFrom(_, _, _)
CanWinFrom(b, player, i) ==
    IF i > Len(ScriptedLines) THEN None
    ELSE IF LineQualifies(b, ScriptedLines[i], player)
         THEN FirstZero(b, ScriptedLines[i])
    ELSE CanWinFrom(b, player, i + 1)

can_win(b, player) == CanWinFrom(b, player, 1)

\* mutant of Scripted_choose_action: the centre is taken without looking
Scripted_choose_action_CentreUnchecked(st, avail) ==
    IF can_win(st, 1) # None THEN {can_win(st, 1)}
    ELSE IF can_win(st, -1) # None THEN {can_win(st, -1)}
    ELSE {4}

\* mutant of Scripted_choose_action: the block is tried before the win
Scripted_choose_action_BlockFirst(st, avail) ==
    IF can_win(st, -1) # None THEN {can_win(st, -1)}
    ELSE IF can_win(st, 1) # None THEN {can_win(st, 1)}
    ELSE IF 4 \in SeqToSet(avail) THEN {4}
    ELSE RandomChoice(avail)

\* ScriptedAgent.choose_action: the possible results
Scripted_choose_action(st, avail) ==
    IF can_win(st, 1) # None THEN {can_win(st, 1)}
    ELSE IF can_win(st, -1) # None THEN {can_win(st, -1)}
    ELSE IF 4 \in SeqToSet(avail) THEN {4}
    ELSE RandomChoice(avail)

\* mutant of Q_choose_action: ties are broken by taking the first best move
Q_choose_action_FirstMax(ag, st, avail, training) ==
    LET state_key == get_state_key(st)
        q_values == [i \in 1 .. Len(avail) |->
                        QGet(ag.q_table, <<state_key, avail[i]>>)]
        max_q == RMax(q_values)
        IsBest(a) == QGet(ag.q_table, <<state_key, a>>) = max_q
        best_actions == SelectSeq(avail, IsBest)
        explore == \E u \in RandomUnit : training /\ RLess(u, ag.epsilon)
        exploit == \E u \in RandomUnit : ~(training /\ RLess(u, ag.epsilon))
    IN  (IF explore THEN RandomChoice(avail) ELSE {})
            \cup (IF exploit THEN {best_actions[1]} ELSE {})

\* QLearningAgent.choose_action: the possible results
Q_choose_action(ag, st, avail, training) ==
    LET state_key == get_state_key(st)
        q_values == [i \in 1 .. Len(avail) |->
                        QGet(ag.q_table, <<state_key, avail[i]>>)]
        max_q == RMax(q_values)
        IsBest(a) == QGet(ag.q_table, <<state_key, a>>) = max_q
        best_actions == SelectSeq(avail, IsBest)
        explore == \E u \in RandomUnit : training /\ RLess(u, ag.epsilon)
        exploit == \E u \in RandomUnit : ~(training /\ RLess(u, ag.epsilon))
    IN  (IF explore THEN RandomChoice(avail) ELSE {})
            \cup (IF exploit THEN RandomChoice(best_actions) ELSE {})

\* SARSAAgent.choose_action: the possible results
SARSA_choose_action(ag, st, avail, training) ==
    LET state_key == get_state_key(st)
        q_values == [i \in 1 .. Len(avail) |->
                        QGet(ag.q_table, <<state_key, avail[i]>>)]
        max_q == RMax(q_values)
        IsBest(a) == QGet(ag.q_table, <<state_key, a>>) = max_q
        best_actions == SelectSeq(avail, IsBest)
        explore == \E u \in RandomUnit : training /\ RLess(u, ag.epsilon)
        exploit == \E u \in RandomUnit : ~(training /\ RLess(u, ag.epsilon))
    IN  (IF explore THEN RandomChoice(avail) ELSE {})
            \cup (IF exploit THEN RandomChoice(best_actions) ELSE {})

\* mutant of Q_update: the bootstrap maximum ranges over the legal moves of
\* the next state only
Q_update_LegalOnly(ag, st, a, reward, next_st, d) ==
    LET state_key == get_state_key(st)
        next_key == get_state_key(next_st)
        old_value == QGet(ag.q_table, <<state_key, a>>)
        legal == available_moves(next_st)
        future_qs == [i \in 1 .. Len(legal) |->
                         QGet(ag.q_table, <<next_key, legal[i]>>)]
        target == IF d THEN reward
                  ELSE RAdd(reward, RMul(ag.gamma, RMax(future_qs)))
    IN  [ag EXCEPT !.q_table =
            QSet(@, <<state_key, a>>,
                 RAdd(old_value, RMul(ag.alpha, RSub(target, old_value))))]

\* QLearningAgent.update: the agent after the call
Q_update(ag, st, a, reward, next_st, d) ==
    LET state_key == get_state_key(st)
        next_key == get_state_key(next_st)
        old_value == QGet(ag.q_table, <<state_key, a>>)
        future_qs == [i \in 1 .. NumCells |->
                         QGet(ag.q_table, <<next_key, i - 1>>)]
        target == IF d THEN reward
                  ELSE RAdd(reward, RMul(ag.gamma, RMax(future_qs)))
    IN  [ag EXCEPT !.q_table =
            QSet(@, <<state_key, a>>,
                 RAdd(old_value, RMul(ag.alpha, RSub(target, old_value))))]

\* mutant of SARSA_update: the bootstrap value is the greedy maximum of the
\* next state, as in Q-Learning, not the value of next_a
SARSA_update_Greedy(ag, st, a, reward, next_st, next_a, d) ==
    LET state_key == get_state_key(st)
        next_key == get_state_key(next_st)
        old_value == QGet(ag.q_table, <<state_key, a>>)
        future_qs == [i \in 1 .. NumCells |->
                         QGet(ag.q_table, <<next_key, i - 1>>)]
        target == IF d THEN reward
                  ELSE RAdd(reward, RMul(ag.gamma, RMax(future_qs)))
    IN  [ag EXCEPT !.q_table =
            QSet(@, <<state_key, a>>,
                 RAdd(old_value, RMul(ag.alpha, RSub(target, old_value))))]

\* SARSAAgent.update: the agent after the call
SARSA_update(ag, st, a, reward, next_st, next_a, d) ==
    LET state_key == get_state_key(st)
        next_key == get_state_key(next_st)
        old_value == QGet(ag.q_table, <<state_key, a>>)
        next_value == QGet(ag.q_table, <<next_key, next_a>>)
        target == IF d THEN reward
                  ELSE RAdd(reward, RMul(ag.gamma, next_value))
    IN  [ag EXCEPT !.q_table =
            QSet(@, <<state_key, a>>,
                 RAdd(old_value, RMul(ag.alpha, RSub(target, old_value))))]

----------------------------------------------------------------------------
(* History records of agent-method calls *)

ChooseCall(who, ag, st, training, result) ==
    [fn |-> "choose_action", who |-> who, kind |-> ag.kind, state |-> st,
     action |-> result, reward |-> Zero, next_state |-> st,
     next_action |-> None, done |-> FALSE, training |-> training,
     before |-> ag.q_table]

UpdateCall(who, ag, st, a, r, ns, na, d) ==
    [fn |-> "update", who |-> who, kind |-> ag.kind, state |-> st,
     action |-> a, reward |-> r, next_state |-> ns,
     next_action |-> na, done |-> d, training |-> FALSE,
     before |-> ag.q_table]

----------------------------------------------------------------------------
(* GameManager *)

\* play_game, "Choose action": the possible results of agent.choose_action
AgentChoose(ag, b, avail, training) ==
    CASE ag.kind = "QLearning" -> Q_choose_action(ag, b, avail, training)
      [] ag.kind = "SARSA"     -> SARSA_choose_action(ag, b, avail, training)
      [] ag.kind = "Random"    -> Random_choose_action(b, avail)
      [] ag.kind = "Scripted"  -> Scripted_choose_action(b, avail)

\* mutant of Rewards: the two win branches exchanged
Rewards_WinsSwapped(w, d) ==
    IF d
    THEN IF w = 0 THEN <<Half, Half>>
         ELSE IF w = 1 THEN <<MinusOne, One>>
         ELSE <<One, MinusOne>>
    ELSE <<Zero, Zero>>

\* mutant of Rewards: no branch for the Draw, which is rewarded as a win of
\* PlayerB
Rewards_NoDrawBranch(w, d) ==
    IF d
    THEN IF w = 1 THEN <<One, MinusOne>>
         ELSE <<MinusOne, One>>
    ELSE <<Zero, Zero>>

\* play_game, "Calculate rewards": <<reward_x, reward_o>>
Rewards(w, d) ==
    IF d
    THEN IF w = 0 THEN <<Half, Half>>
         ELSE IF w = 1 THEN <<One, MinusOne>>
         ELSE <<MinusOne, One>>
    ELSE <<Zero, Zero>>

\* mutant of Learn: the train flag is not looked at
Learn_TrainIgnored(who, ag, tr, st, a, r, ns, d) ==
    IF ag.kind = "QLearning"
    THEN { << Q_update(ag, st, a, r, ns, d),
              << UpdateCall(who, ag, st, a, r, ns, None, d) >> >> }
    ELSE IF ag.kind = "SARSA" /\ ~d /\ Len(available_moves(ns)) > 0
    THEN { << SARSA_update(ag, st, a, r, ns, na, d),
              << ChooseCall(who, ag, ns, TRUE, na),
                 UpdateCall(who, ag, st, a, r, ns, na, d) >> >> :
           na \in SARSA_choose_action(ag, ns, available_moves(ns), TRUE) }
    ELSE { << ag, << >> >> }

\* mutant of Learn: a SARSA agent is updated after its terminal move too
Learn_SarsaTerminalUpdate(who, ag, tr, st, a, r, ns, d) ==
    IF tr /\ ag.kind = "QLearning"
    THEN { << Q_update(ag, st, a, r, ns, d),
              << UpdateCall(who, ag, st, a, r, ns, None, d) >> >> }
    ELSE IF tr /\ ag.kind = "SARSA" /\ Len(available_moves(ns)) > 0
    THEN { << SARSA_update(ag, st, a, r, ns, na, d),
              << ChooseCall(who, ag, ns, TRUE, na),
                 UpdateCall(who, ag, st, a, r, ns, na, d) >> >> :
           na \in SARSA_choose_action(ag, ns, available_moves(ns), TRUE) }
    ELSE { << ag, << >> >> }

\* mutant of Learn: state is the board itself and not a copy of it, so that
\* update sees the board after the move as state and as next_state
Learn_BoardAliased(who, ag, tr, st, a, r, ns, d) ==
    IF tr /\ ag.kind = "QLearning"
    THEN { << Q_update(ag, ns, a, r, ns, d),
              << UpdateCall(who, ag, ns, a, r, ns, None, d) >> >> }
    ELSE IF tr /\ ag.kind = "SARSA" /\ ~d /\ Len(available_moves(ns)) > 0
    THEN { << SARSA_update(ag, ns, a, r, ns, na, d),
              << ChooseCall(who, ag, ns, TRUE, na),
                 UpdateCall(who, ag, ns, a, r, ns, na, d) >> >> :
           na \in SARSA_choose_action(ag, ns, available_moves(ns), TRUE) }
    ELSE { << ag, << >> >> }

\* play_game, "Update learning agents", for the mover ag: the possible
\* pairs <<the agent afterwards, the calls made>>
Learn(who, ag, tr, st, a, r, ns, d) ==
    IF tr /\ ag.kind = "QLearning"
    THEN { << Q_update(ag, st, a, r, ns, d),
              << UpdateCall(who, ag, st, a, r, ns, None, d) >> >> }
    ELSE IF tr /\ ag.kind = "SARSA" /\ ~d /\ Len(available_moves(ns)) > 0
    THEN { << SARSA_update(ag, st, a, r, ns, na, d),
              << ChooseCall(who, ag, ns, TRUE, na),
                 UpdateCall(who, ag, st, a, r, ns, na, d) >> >> :
           na \in SARSA_choose_action(ag, ns, available_moves(ns), TRUE) }
    ELSE { << ag, << >> >> }

\* mutant of PlayGameStart: reset_board does not set current_player
PlayGameStart_PlayerKept(t) ==
    /\ train' = t
    /\ board' = EmptyBoard
    /\ state' = EmptyBoard
    /\ done' = FALSE
    /\ action' = None
    /\ winner' = None
    /\ reward_x' = Zero
    /\ reward_o' = Zero
    /\ prev_board' = EmptyBoard
    /\ calls' = << >>
    /\ ret' = None
    /\ pc' = "loop"
    /\ UNCHANGED <<agent_x, agent_o, current_player, rng_levels, games_played,
                   boardVars>>

\* play_game(t), up to the head of the while loop, with the locals of the
\* new call unset, the history of the new call empty and nothing returned yet
PlayGameStart(t) ==
    /\ train' = t
    /\ board' = EmptyBoard
    /\ current_player' = 1
    /\ state' = EmptyBoard
    /\ done' = FALSE
    /\ action' = None
    /\ winner' = None
    /\ reward_x' = Zero
    /\ reward_o' = Zero
    /\ prev_board' = EmptyBoard
    /\ calls' = << >>
    /\ ret' = None
    /\ pc' = "loop"
    /\ UNCHANGED <<agent_x, agent_o, rng_levels, games_played, boardVars>>

\* gm.play_game(train) on a GameManager that has not played yet
StartGame ==
    /\ pc = "idle"
    /\ \E t \in BOOLEAN : PlayGameStart(t)
    /\ UNCHANGED trainerVars

\* one iteration of the while loop of play_game
Step ==
    /\ pc = "loop"
    /\ ~done
    /\ LET agent == IF current_player = 1 THEN agent_x ELSE agent_o
           who == IF current_player = 1 THEN "x" ELSE "o"
           avail == available_moves(board)
       IN  \E a \in AgentChoose(agent, board, avail, train) :
             LET nb == [board EXCEPT ![a + 1] = current_player]
                 w == check_winner(nb)
                 d == w # None
                 rw == Rewards(w, d)
                 r == IF current_player = 1 THEN rw[1] ELSE rw[2]
             IN  \E res \in Learn(who, agent, train, state, a, r, nb, d) :
                   /\ board' = nb
                   /\ prev_board' = board
                   /\ action' = a
                   /\ winner' = w
                   /\ done' = d
                   /\ reward_x' = rw[1]
                   /\ reward_o' = rw[2]
                   /\ agent_x' = IF current_player = 1 THEN res[1] ELSE agent_x
                   /\ agent_o' = IF current_player = 1 THEN agent_o ELSE res[1]
                   /\ calls' = <<ChooseCall(who, agent, board, train, a)>> \o res[2]
                   /\ state' = nb
                   /\ current_player' = -current_player
    /\ UNCHANGED <<train, pc, ret, rng_levels, games_played, boardVars,
                   trainerVars>>

\* the loop has ended: return winner
Return ==
    /\ pc = "loop"
    /\ done
    /\ pc' = "returned"
    /\ ret' = winner
    /\ games_played' = games_played + 1
    /\ UNCHANGED <<agent_x, agent_o, board, current_player, train, state,
                   action, winner, done, reward_x, reward_o, prev_board,
                   calls, rng_levels, boardVars, trainerVars>>

----------------------------------------------------------------------------
(* Specification of one game played by a GameManager *)

NoCall == [op |-> "none", move |-> None, state |-> EmptyBoard,
           player |-> 1, raised |-> FALSE, ret |-> None, prev |-> << >>]

Agents ==
    { RandomAgent, ScriptedAgent,
      QLearningAgent(DefaultAlpha, DefaultGamma, DefaultEpsilon),
      SARSAAgent(DefaultAlpha, DefaultGamma, DefaultEpsilon) }

\* Trainer.results as first set
NoResults == [X_wins |-> 0, O_wins |-> 0, Draws |-> 0]

\* no Trainer at work
NoLoops ==
    /\ t_pc = "none"
    /\ episodes = 0
    /\ checkpoint_interval = 0
    /\ episode = 0
    /\ results = NoResults
    /\ temp_wins_x = 0
    /\ temp_wins_o = 0
    /\ temp_draws = 0
    /\ history = << >>
    /\ stats = << >>

\* the play_game locals before play_game runs, and a constructed Board
InitRest ==
    /\ board = EmptyBoard
    /\ current_player = 1
    /\ train = FALSE
    /\ state = EmptyBoard
    /\ action = None
    /\ winner = None
    /\ done = FALSE
    /\ reward_x = Zero
    /\ reward_o = Zero
    /\ pc = "idle"
    /\ prev_board = EmptyBoard
    /\ calls = << >>
    /\ ret = None
    /\ b_state = EmptyBoard
    /\ b_current_player = 1
    /\ b_last = NoCall
    /\ games_played = 0
    /\ NoLoops

\* GameManager(agent_x, agent_o) with freshly constructed agents
Init ==
    /\ agent_x \in Agents
    /\ agent_o \in Agents
    /\ rng_levels = RandLevels
    /\ InitRest

Next == StartGame \/ Step \/ Return

Spec == Init /\ [][Next]_vars

----------------------------------------------------------------------------
(* The Board class, driven by arbitrary calls of its methods *)

\* mutant of Board_make_move: the occupied-cell test is missing
Board_make_move_Unchecked(s, player, move) ==
    [state |-> [s EXCEPT ![move + 1] = player],
     current_player |-> player * (-1), raised |-> FALSE]

\* Board.make_move: the fields afterwards, and whether ValueError was raised
Board_make_move(s, player, move) ==
    IF s[move + 1] # 0
    THEN [state |-> s, current_player |-> player, raised |-> TRUE]
    ELSE [state |-> [s EXCEPT ![move + 1] = player],
          current_player |-> player * (-1), raised |-> FALSE]

\* Board.reset()
BoardReset ==
    /\ b_state' = [i \in 1 .. NumCells |-> 0]
    /\ b_current_player' = 1
    /\ b_last' = [op |-> "reset", move |-> None, state |-> b_state,
                  player |-> b_current_player, raised |-> FALSE,
                  ret |-> [i \in 1 .. NumCells |-> 0], prev |-> << >>]
    /\ UNCHANGED <<gameVars, trainerVars>>

\* Board.make_move(move)
BoardMakeMove ==
    /\ \E move \in Cells :
         LET r == Board_make_move(b_state, b_current_player, move)
         IN  /\ b_state' = r.state
             /\ b_current_player' = r.current_player
             /\ b_last' = [op |-> "make_move", move |-> move, state |-> b_state,
                           player |-> b_current_player, raised |-> r.raised,
                           ret |-> None, prev |-> << >>]
    /\ UNCHANGED <<gameVars, trainerVars>>

\* b.check_winner(); prev is the result of the call right before this
\* one when that was a check_winner call too
BoardCheckWinner ==
    /\ b_last' = [op |-> "check_winner", move |-> None, state |-> b_state,
                  player |-> b_current_player, raised |-> FALSE,
                  ret |-> Board_check_winner(b_state),
                  prev |-> IF b_last.op = "check_winner"
                           THEN <<b_last.ret>> ELSE << >>]
    /\ UNCHANGED <<b_state, b_current_player>>
    /\ UNCHANGED <<gameVars, trainerVars>>

\* Board.available_moves()
BoardAvailableMoves ==
    /\ b_last' = [op |-> "available_moves", move |-> None, state |-> b_state,
                  player |-> b_current_player, raised |-> FALSE,
                  ret |-> Board_available_moves(b_state), prev |-> << >>]
    /\ UNCHANGED <<b_state, b_current_player>>
    /\ UNCHANGED <<gameVars, trainerVars>>

\* Board() with no GameManager at play
InitBoard ==
    /\ agent_x = RandomAgent
    /\ agent_o = RandomAgent
    /\ rng_levels = RandLevels
    /\ InitRest

NextBoard ==
    BoardReset \/ BoardMakeMove \/ BoardCheckWinner \/ BoardAvailableMoves

SpecBoard == InitBoard /\ [][NextBoard]_vars

----------------------------------------------------------------------------
(* Direct calls of check_winner and of ScriptedAgent.choose_action on any  *)
(* 9-cell board (self.board and Board.state are plain attributes)          *)

\* gm.check_winner() on the board as it stands
CallCheckWinner ==
    /\ pc = "idle"
    /\ pc' = "called"
    /\ ret' = check_winner(board)
    /\ calls' = << [fn |-> "check_winner", who |-> "gm", kind |-> "GameManager",
                    state |-> board, action |-> check_winner(board),
                    reward |-> Zero, next_state |-> board,
                    next_action |-> None, done |-> FALSE, training |-> FALSE,
                    before |-> EmptyTable] >>
    /\ UNCHANGED <<agent_x, agent_o, board, current_player, train, state,
                   action, winner, done, reward_x, reward_o, prev_board,
                   rng_levels, games_played, boardVars, trainerVars>>

\* ScriptedAgent().choose_action(board, legal moves of board)
CallScripted ==
    /\ pc = "idle"
    /\ pc' = "called"
    /\ Len(available_moves(board)) > 0
    /\ \E a \in Scripted_choose_action(board, available_moves(board)) :
         /\ ret' = a
         /\ calls' = << ChooseCall("direct", ScriptedAgent, board, FALSE, a) >>
    /\ UNCHANGED <<agent_x, agent_o, board, current_player, train, state,
                   action, winner, done, reward_x, reward_o, prev_board,
                   rng_levels, games_played, boardVars, trainerVars>>

\* any board over {Empty, PlayerA, PlayerB}, held by a GameManager and a Board
InitCalls ==
    /\ agent_x = RandomAgent
    /\ agent_o = RandomAgent
    /\ rng_levels = NumCells
    /\ board \in AllBoards
    /\ b_state = board
    /\ current_player = 1
    /\ train = FALSE
    /\ state = EmptyBoard
    /\ action = None
    /\ winner = None
    /\ done = FALSE
    /\ reward_x = Zero
    /\ reward_o = Zero
    /\ pc = "idle"
    /\ prev_board = EmptyBoard
    /\ calls = << >>
    /\ ret = None
    /\ b_current_player = 1
    /\ b_last = NoCall
    /\ games_played = 0
    /\ NoLoops

NextCalls == CallCheckWinner \/ BoardCheckWinner \/ CallScripted

SpecCalls == InitCalls /\ [][NextCalls]_vars

----------------------------------------------------------------------------
(* Direct calls of the learning agents' methods, on agents whose tables    *)
(* already hold entries                                                    *)

\* a board with PlayerA to move and three Empty cells, and the board after
\* PlayerA has taken cell 7 there
SampleStateX == <<1, -1, 1, -1, 1, -1, 0, 0, 0>>

SampleStateO == <<1, -1, 1, -1, 1, -1, 0, 1, 0>>

SampleStates == {SampleStateX, SampleStateO}

SampleValues == {Rat(-1, 2), Half}

SampleRewards == {MinusOne, Zero, Half, One}

SampleEpsilons == {Zero, DefaultEpsilon}

\* table keys on the sample boards; cell 0 of SampleStateO is occupied
SampleKeys ==
    { <<SampleStateX, 7>>, <<SampleStateO, 6>>, <<SampleStateO, 8>>,
      <<SampleStateO, 0>> }

PlayedKeys ==
    { <<SampleStateX, 7>>, <<SampleStateO, 6>>, <<SampleStateO, 8>> }

\* the tables that hold a sample value for some of the keys
TablesOver(keys) == UNION { [K -> SampleValues] : K \in SUBSET keys }

\* agent_x.update(st, a, r, ns, d) on a QLearningAgent
CallQUpdate ==
    /\ pc = "idle"
    /\ pc' = "called"
    /\ agent_x.kind = "QLearning"
    /\ \E st \in SampleStates, a \in Cells, r \in SampleRewards,
          ns \in SampleStates, d \in BOOLEAN :
         /\ agent_x' = Q_update(agent_x, st, a, r, ns, d)
         /\ calls' = << UpdateCall("direct", agent_x, st, a, r, ns, None, d) >>
    /\ ret' = None
    /\ UNCHANGED <<agent_o, board, current_player, train, state, action,
                   winner, done, reward_x, reward_o, prev_board, rng_levels,
                   games_played, boardVars, trainerVars>>

\* agent_x.update(st, a, r, ns, na, d) on a SARSAAgent
CallSarsaUpdate ==
    /\ pc = "idle"
    /\ pc' = "called"
    /\ agent_x.kind = "SARSA"
    /\ \E st \in SampleStates, a \in Cells, r \in SampleRewards,
          ns \in SampleStates, na \in Cells, d \in BOOLEAN :
         /\ agent_x' = SARSA_update(agent_x, st, a, r, ns, na, d)
         /\ calls' = << UpdateCall("direct", agent_x, st, a, r, ns, na, d) >>
    /\ ret' = None
    /\ UNCHANGED <<agent_o, board, current_player, train, state, action,
                   winner, done, reward_x, reward_o, prev_board, rng_levels,
                   games_played, boardVars, trainerVars>>

\* agent_x.choose_action(st, legal moves of st, training) on a learning
\* agent; ret holds the result and the set of results the call may give
CallChooseAction ==
    /\ pc = "idle"
    /\ pc' = "called"
    /\ IsLearner(agent_x)
    /\ \E st \in SampleStates \cup {EmptyBoard}, training \in BOOLEAN :
         LET may == AgentChoose(agent_x, st, available_moves(st), training)
         IN  \E a \in may :
               /\ ret' = [result |-> a, may |-> may]
               /\ calls' = << ChooseCall("direct", agent_x, st, training, a) >>
    /\ UNCHANGED <<agent_x, agent_o, board, current_player, train, state,
                   action, winner, done, reward_x, reward_o, prev_board,
                   rng_levels, games_played, boardVars, trainerVars>>

\* a learning agent with a table over the sample keys, not yet in a game
InitLearner ==
    /\ agent_x \in
         { [QLearningAgent(DefaultAlpha, DefaultGamma, e) EXCEPT !.q_table = t] :
             e \in SampleEpsilons, t \in TablesOver(SampleKeys) }
         \cup
         { [SARSAAgent(DefaultAlpha, DefaultGamma, e) EXCEPT !.q_table = t] :
             e \in SampleEpsilons, t \in TablesOver(SampleKeys) }
    /\ agent_o = RandomAgent
    /\ rng_levels = NumCells
    /\ InitRest

NextLearner == CallQUpdate \/ CallSarsaUpdate \/ CallChooseAction

SpecLearner == InitLearner /\ [][NextLearner]_vars

\* a SARSA agent with a table over the sample keys, on either side of a
\* GameManager against a Random agent
InitSarsa ==
    /\ \E t \in TablesOver(PlayedKeys) :
         LET ag == [SARSAAgent(DefaultAlpha, DefaultGamma, DefaultEpsilon)
                        EXCEPT !.q_table = t]
         IN  \/ agent_x = ag /\ agent_o = RandomAgent
             \/ agent_x = RandomAgent /\ agent_o = ag
    /\ rng_levels = RandLevels
    /\ InitRest

NextSarsa == CallSarsaUpdate \/ StartGame \/ Step \/ Return

SpecSarsa == InitSarsa /\ [][NextSarsa]_vars

----------------------------------------------------------------------------
(* Trainer *)

\* an epsilon above 1 and one below 0, which the constructors accept
EpsilonAbove == Rat(3, 2)

EpsilonBelow == Rat(-1, 2)

\* the pairs (agent_x, agent_o) a Trainer is constructed with: the four
\* pairs of TrainingOrchestrator.train_all_agents, a learner as agent_o, two
\* Random agents, and learners constructed with an epsilon outside [0, 1]
TrainPairs ==
    LET Q == QLearningAgent(DefaultAlpha, DefaultGamma, DefaultEpsilon)
        S == SARSAAgent(DefaultAlpha, DefaultGamma, DefaultEpsilon)
    IN  { <<Q, RandomAgent>>, <<Q, ScriptedAgent>>,
          <<S, RandomAgent>>, <<S, ScriptedAgent>>,
          <<RandomAgent, S>>, <<RandomAgent, RandomAgent>>,
          <<QLearningAgent(DefaultAlpha, DefaultGamma, EpsilonAbove),
            ScriptedAgent>>,
          <<SARSAAgent(DefaultAlpha, DefaultGamma, EpsilonBelow),
            RandomAgent>> }

\* the most episodes asked for with the pair p
LongestRun(p) ==
    IF ~IsLearner(p[1]) /\ ~IsLearner(p[2]) THEN MaxLongRun
    ELSE IF p[1].kind = "Random" \/ p[2].kind = "Random" THEN MaxShortRun
    ELSE MaxEpisodes

\* the constructions Trainer(p[1], p[2], e, c) examined, as <<p, e, c>>
TrainConfigs ==
    { cfg \in TrainPairs \X (0 .. MaxLongRun) \X (0 .. MaxInterval) :
        cfg[2] <= LongestRun(cfg[1]) }

\* 100 * n / total
Rate(n, total) == Rat(100 * n, total)

\* mutant of Count: a Draw is counted as a win of PlayerB
Count_DrawAsLoss(res, result) ==
    IF result = 1 THEN [res EXCEPT !.X_wins = @ + 1]
    ELSE [res EXCEPT !.O_wins = @ + 1]

\* train: self.results after the outcome of one episode has been counted
Count(res, result) ==
    IF result = 1 THEN [res EXCEPT !.X_wins = @ + 1]
    ELSE IF result = -1 THEN [res EXCEPT !.O_wins = @ + 1]
    ELSE [res EXCEPT !.Draws = @ + 1]

\* mutant of CheckpointRecord: the draw rate is taken over all episodes so
\* far
CheckpointRecord_DrawsOverAll(ep, wx, wo, dr) ==
    [episodes |-> ep,
     x_win_rate |-> Rate(wx, wx + wo + dr),
     o_win_rate |-> Rate(wo, wx + wo + dr),
     draw_rate |-> Rate(dr, ep)]

\* train, "Record checkpoint": what is appended to the four lists of
\* self.history
CheckpointRecord(ep, wx, wo, dr) ==
    LET total == wx + wo + dr
    IN  [episodes |-> ep,
         x_win_rate |-> Rate(wx, total),
         o_win_rate |-> Rate(wo, total),
         draw_rate |-> Rate(dr, total)]

\* the value get_statistics returns
Statistics(res) ==
    LET total == res.X_wins + res.O_wins + res.Draws
    IN  [total_games |-> total,
         x_wins |-> res.X_wins,
         o_wins |-> res.O_wins,
         draws |-> res.Draws,
         x_win_rate |-> IF total > 0 THEN Rate(res.X_wins, total) ELSE Zero,
         o_win_rate |-> IF total > 0 THEN Rate(res.O_wins, total) ELSE Zero,
         draw_rate |-> IF total > 0 THEN Rate(res.Draws, total) ELSE Zero]

\* Trainer.train(), up to the head of the for loop
TrainStart ==
    /\ t_pc = "ready"
    /\ t_pc' = "loop"
    /\ temp_wins_x' = 0
    /\ temp_wins_o' = 0
    /\ temp_draws' = 0
    /\ UNCHANGED <<episodes, checkpoint_interval, episode, results, history,
                   stats, gameVars, boardVars>>

\* the for loop of train takes the next episode and calls
\* gm.play_game(train=True)
TrainPlayGame ==
    /\ t_pc = "loop"
    /\ episode < episodes
    /\ episode' = episode + 1
    /\ t_pc' = "playing"
    /\ PlayGameStart(TRUE)
    /\ UNCHANGED <<episodes, checkpoint_interval, results, temp_wins_x,
                   temp_wins_o, temp_draws, history, stats>>

\* the rest of the loop body, once play_game has returned: the counters and
\* the checkpoint; episode % 0 raises ZeroDivisionError
TrainRecord ==
    /\ t_pc = "playing"
    /\ pc = "returned"
    /\ LET result == ret
           wx == IF result = 1 THEN temp_wins_x + 1 ELSE temp_wins_x
           wo == IF result = 1 THEN temp_wins_o
                 ELSE IF result = -1 THEN temp_wins_o + 1 ELSE temp_wins_o
           dr == IF result = 1 \/ result = -1 THEN temp_draws
                 ELSE temp_draws + 1
       IN  /\ results' = Count(results, result)
           /\ IF checkpoint_interval = 0
              THEN /\ t_pc' = "raised"
                   /\ temp_wins_x' = wx
                   /\ temp_wins_o' = wo
                   /\ temp_draws' = dr
                   /\ UNCHANGED history
              ELSE IF episode % checkpoint_interval = 0
              THEN /\ t_pc' = "loop"
                   /\ history' =
                          Append(history, CheckpointRecord(episode, wx, wo, dr))
                   /\ temp_wins_x' = 0
                   /\ temp_wins_o' = 0
                   /\ temp_draws' = 0
              ELSE /\ t_pc' = "loop"
                   /\ temp_wins_x' = wx
                   /\ temp_wins_o' = wo
                   /\ temp_draws' = dr
                   /\ UNCHANGED history
    /\ UNCHANGED <<episodes, checkpoint_interval, episode, stats, gameVars,
                   boardVars>>

\* the for loop has ended: return self.results
TrainReturn ==
    /\ t_pc = "loop"
    /\ episode >= episodes
    /\ t_pc' = "done"
    /\ UNCHANGED <<episodes, checkpoint_interval, episode, results,
                   temp_wins_x, temp_wins_o, temp_draws, history, stats,
                   gameVars, boardVars>>

\* Trainer.get_statistics() as the last call on the Trainer, before or
\* after train
GetStatistics ==
    /\ t_pc \in {"ready", "done", "raised"}
    /\ t_pc' = "reported"
    /\ stats' = << Statistics(results) >>
    /\ UNCHANGED <<episodes, checkpoint_interval, episode, results,
                   temp_wins_x, temp_wins_o, temp_draws, history, gameVars,
                   boardVars>>

\* Trainer(ax, ao, e, c)
Trainer(ax, ao, e, c) ==
    /\ agent_x = ax
    /\ agent_o = ao
    /\ episodes = e
    /\ checkpoint_interval = c
    /\ rng_levels = RandLevels
    /\ board = EmptyBoard
    /\ current_player = 1
    /\ train = FALSE
    /\ state = EmptyBoard
    /\ action = None
    /\ winner = None
    /\ done = FALSE
    /\ reward_x = Zero
    /\ reward_o = Zero
    /\ pc = "idle"
    /\ prev_board = EmptyBoard
    /\ calls = << >>
    /\ ret = None
    /\ b_state = EmptyBoard
    /\ b_current_player = 1
    /\ b_last = NoCall
    /\ games_played = 0
    /\ t_pc = "ready"
    /\ episode = 0
    /\ results = NoResults
    /\ temp_wins_x = 0
    /\ temp_wins_o = 0
    /\ temp_draws = 0
    /\ history = << >>
    /\ stats = << >>

InitTrain ==
    \E cfg \in TrainConfigs : Trainer(cfg[1][1], cfg[1][2], cfg[2], cfg[3])

NextTrain ==
    \/ TrainStart
    \/ TrainPlayGame
    \/ Step
    \/ Return
    \/ TrainRecord
    \/ TrainReturn
    \/ GetStatistics

SpecTrain == InitTrain /\ [][NextTrain]_vars

----------------------------------------------------------------------------
(* Evaluation: consecutive play_game(train=False) calls on one GameManager *)
(* whose learning agents have been trained before                          *)

\* the board after PlayerA has opened in the centre
CentreOpened == [EmptyBoard EXCEPT ![5] = 1]

\* a table as training leaves it: entries on the empty board and on the
\* board after a centre opening
TrainedTable ==
    [k \in { <<EmptyBoard, 0>>, <<EmptyBoard, 4>>, <<CentreOpened, 0>>,
             <<CentreOpened, 8>> } |->
        IF k[2] = 0 THEN Rat(-1, 2) ELSE Half]

EvalAgents ==
    { RandomAgent, ScriptedAgent,
      QLearningAgent(DefaultAlpha, DefaultGamma, DefaultEpsilon),
      [QLearningAgent(DefaultAlpha, DefaultGamma, DefaultEpsilon)
          EXCEPT !.q_table = TrainedTable],
      [SARSAAgent(DefaultAlpha, DefaultGamma, DefaultEpsilon)
          EXCEPT !.q_table = TrainedTable] }

\* result = gm.play_game(train=False), the first or a further game
EvalGame ==
    /\ pc \in {"idle", "returned"}
    /\ games_played < MaxGames
    /\ PlayGameStart(FALSE)
    /\ UNCHANGED trainerVars

InitEval ==
    /\ agent_x \in EvalAgents
    /\ agent_o \in EvalAgents
    /\ rng_levels = RandLevels
    /\ InitRest

NextEval == EvalGame \/ Step \/ Return

SpecEval == InitEval /\ [][NextEval]_vars

----------------------------------------------------------------------------
(* Every legal game: Random and Scripted agents with a random source fine  *)
(* enough for random.choice to return each element of a list of up to nine *)

\* gm.play_game(train) once more on a GameManager that has played
PlayAgain ==
    /\ pc = "returned"
    /\ games_played < MaxGames
    /\ \E t \in BOOLEAN : PlayGameStart(t)
    /\ UNCHANGED trainerVars

InitFull ==
    /\ agent_x \in {RandomAgent, ScriptedAgent}
    /\ agent_o \in {RandomAgent, ScriptedAgent}
    /\ rng_levels = NumCells
    /\ InitRest

NextFull == StartGame \/ Step \/ Return \/ PlayAgain

SpecFull == InitFull /\ [][NextFull]_vars

\* one game, in which the while loop of play_game keeps running and
\* play_game returns once the loop has ended
SpecFair == InitFull /\ [][Next]_vars /\ WF_vars(Step) /\ WF_vars(Return)

----------------------------------------------------------------------------

(* Vocabulary of the properties *)

\* the indices of the Empty cells of board b
EmptyCells(b) == { i \in Cells : b[i + 1] = 0 }

\* the eight lines as sets of cell indices
LineSets ==
    { {0, 1, 2}, {3, 4, 5}, {6, 7, 8}, {0, 3, 6}, {1, 4, 7}, {2, 5, 8},
      {0, 4, 8}, {2, 4, 6} }

\* some line of b is all p
HasLine(b, p) == \E l \in LineSets : \A i \in l : b[i + 1] = p

IsFull(b) == EmptyCells(b) = {}

\* a move has been applied in the current game
Moved == pc \in {"loop", "returned"} /\ action # None

\* the player who made the last move, and that player's agent
LastMover == -current_player

LastAgent == IF LastMover = 1 THEN agent_x ELSE agent_o

LastReward == IF LastMover = 1 THEN reward_x ELSE reward_o

IsUpdateCall(c) == c.fn = "update"

UpdateCalls == SelectSeq(calls, IsUpdateCall)

----------------------------------------------------------------------------
(* C1 *)

\* C1: in play_game with train enabled, every move applied by a learning
\* agent (Q-Learning or SARSA), the terminal move included, is followed,
\* before the next move is selected, by exactly one update call of that agent
\* carrying that move's transition (state before, move, mover's reward,
\* state after, terminal flag).
C1_OneUpdatePerLearnerMove ==
    (Moved /\ train /\ IsLearner(LastAgent)) =>
        /\ Len(UpdateCalls) = 1
        /\ UpdateCalls[1].who = (IF LastMover = 1 THEN "x" ELSE "o")
        /\ UpdateCalls[1].state = prev_board
        /\ UpdateCalls[1].action = action
        /\ UpdateCalls[1].reward = LastReward
        /\ UpdateCalls[1].next_state = board
        /\ UpdateCalls[1].done = done

----------------------------------------------------------------------------
(* C2 *)

\* C2: on every step of play_game the reward pair (to PlayerA, to PlayerB) is
\* (0, 0) when the post-move board is not terminal, (1/2, 1/2) on a Draw,
\* (1, -1) when PlayerA wins and (-1, 1) when PlayerB wins; so at the
\* terminal step the rewards sum to 1 on a Draw and to 0 on a win.
C2_RewardPair ==
    Moved =>
        /\ HasLine(board, 1) => (reward_x = One /\ reward_o = MinusOne)
        /\ (HasLine(board, -1) /\ ~HasLine(board, 1)) =>
               (reward_x = MinusOne /\ reward_o = One)
        /\ (~HasLine(board, 1) /\ ~HasLine(board, -1) /\ IsFull(board)) =>
               (reward_x = Half /\ reward_o = Half)
        /\ (~HasLine(board, 1) /\ ~HasLine(board, -1) /\ ~IsFull(board)) =>
               (reward_x = Zero /\ reward_o = Zero /\ ~done)
        /\ done =>
               RAdd(reward_x, reward_o) =
                   (IF HasLine(board, 1) \/ HasLine(board, -1) THEN Zero ELSE One)

\* a game has ended in a Draw and both rewards are 1/2
C2_Witness ==
    /\ pc = "returned"
    /\ ret = 0
    /\ IsFull(board)
    /\ reward_x = Half
    /\ reward_o = Half

----------------------------------------------------------------------------
(* C8 *)

\* C8: in every state of an episode the legal-move list of the driver (and
\* of Board.available_moves) is exactly the set of indices of Empty cells;
\* every applied move, whichever agent chose it, targets a cell that was
\* Empty, changes exactly that cell from Empty to the mover's mark, shrinks
\* the legal-move set by exactly one and overwrites or clears no occupied
\* cell.
C8_LegalMoves ==
    /\ SeqToSet(available_moves(board)) = EmptyCells(board)
    /\ Len(available_moves(board)) = Cardinality(EmptyCells(board))
    /\ Board_available_moves(board) = available_moves(board)
    /\ Moved =>
        /\ action \in EmptyCells(prev_board)
        /\ board[action + 1] = LastMover
        /\ { i \in Cells : board[i + 1] # prev_board[i + 1] } = {action}
        /\ Len(available_moves(board)) = Len(available_moves(prev_board)) - 1
        /\ \A i \in Cells : prev_board[i + 1] # 0 =>
                               board[i + 1] = prev_board[i + 1]

\* the Scripted agent has just moved on a board where the centre was taken
\* and nothing could be won or blocked
C8_Witness ==
    /\ Moved
    /\ LastAgent.kind = "Scripted"
    /\ prev_board[5] # 0
    /\ can_win(prev_board, 1) = None
    /\ can_win(prev_board, -1) = None
    /\ board[action + 1] = LastMover

----------------------------------------------------------------------------
(* C6 *)

\* the result of a check_winner call on board b, as the claim states it
C6_Stated(b) ==
    IF HasLine(b, 1) THEN 1
    ELSE IF HasLine(b, -1) THEN -1
    ELSE IF IsFull(b) THEN 0
    ELSE None

\* line number i of b (rows 0-2, columns 0-2, main diagonal, anti-diagonal)
\* is complete: all PlayerA or all PlayerB
C6_Complete(b, i) == LineAll(b, Lines[i], 1) \/ LineAll(b, Lines[i], -1)

\* the mark on the first complete line of b in that order, None without one
C6_FirstComplete(b) ==
    IF \E i \in 1 .. Len(Lines) : C6_Complete(b, i)
    THEN LET i == CHOOSE k \in 1 .. Len(Lines) :
                      /\ C6_Complete(b, k)
                      /\ \A j \in 1 .. (k - 1) : ~C6_Complete(b, j)
         IN  b[Lines[i][1] + 1]
    ELSE None

\* C6 as stated: for every 9-cell board, check_winner returns PlayerA-wins
\* whenever some line is all PlayerA (also when another line is all
\* PlayerB), otherwise PlayerB-wins when some line is all PlayerB, otherwise
\* Draw when no cell is Empty, otherwise None.
C6_AsStated ==
    /\ (calls # << >> /\ calls[1].fn = "check_winner") =>
           calls[1].action = C6_Stated(calls[1].state)
    /\ b_last.op = "check_winner" => b_last.ret = C6_Stated(b_last.state)

\* C6 amended: for every 9-cell board, check_winner returns the owner of the
\* first complete line in the order row 0, row 1, row 2, column 0, column 1,
\* column 2, main diagonal, anti-diagonal (so PlayerA-wins when a line is all
\* PlayerA and no all-PlayerB line comes before it, PlayerB-wins when a line
\* is all PlayerB and no all-PlayerA line comes before it), otherwise Draw
\* when no cell is Empty, otherwise None.
C6_FirstCompleteLineWins ==
    /\ (calls # << >> /\ calls[1].fn = "check_winner") =>
           LET b == calls[1].state
               r == calls[1].action
           IN  /\ b = board
               /\ C6_FirstComplete(b) # None => r = C6_FirstComplete(b)
               /\ (C6_FirstComplete(b) = None /\ IsFull(b)) => r = 0
               /\ (C6_FirstComplete(b) = None /\ ~IsFull(b)) => r = None
               /\ (HasLine(b, 1) /\ ~HasLine(b, -1)) => r = 1
               /\ (HasLine(b, -1) /\ ~HasLine(b, 1)) => r = -1
    /\ b_last.op = "check_winner" =>
           LET b == b_last.state
               r == b_last.ret
           IN  /\ b = b_state
               /\ C6_FirstComplete(b) # None => r = C6_FirstComplete(b)
               /\ (C6_FirstComplete(b) = None /\ IsFull(b)) => r = 0
               /\ (C6_FirstComplete(b) = None /\ ~IsFull(b)) => r = None
               /\ (HasLine(b, 1) /\ ~HasLine(b, -1)) => r = 1
               /\ (HasLine(b, -1) /\ ~HasLine(b, 1)) => r = -1

\* check_winner has answered PlayerB-wins on a board that also holds an
\* all-PlayerA line
C6_Witness ==
    /\ calls # << >>
    /\ calls[1].fn = "check_winner"
    /\ HasLine(board, 1)
    /\ HasLine(board, -1)
    /\ ret = -1

----------------------------------------------------------------------------
(* C7 *)

\* C7: on every board that alternating moves from the empty board fill
\* completely without a line of three equal marks, check_winner returns Draw
\* (0); on every reachable board with an Empty cell and no complete line it
\* returns None; and a second check_winner call on the same board returns
\* what the first returned and leaves the board unchanged.
C7_DrawOngoingIdempotent ==
    /\ (IsFull(b_state) /\ ~HasLine(b_state, 1) /\ ~HasLine(b_state, -1)) =>
           (Board_check_winner(b_state) = 0 /\ check_winner(b_state) = 0)
    /\ (~IsFull(b_state) /\ ~HasLine(b_state, 1) /\ ~HasLine(b_state, -1)) =>
           (Board_check_winner(b_state) = None /\ check_winner(b_state) = None)
    /\ b_last.op = "check_winner" =>
           /\ b_state = b_last.state
           /\ b_current_player = b_last.player
           /\ b_last.ret = Board_check_winner(b_state)
           /\ b_last.prev # << >> => b_last.prev = <<b_last.ret>>

\* check_winner was called twice in a row on a full board without a line
C7_Witness ==
    /\ b_last.op = "check_winner"
    /\ b_last.prev = <<0>>
    /\ b_last.ret = 0
    /\ IsFull(b_state)
    /\ ~HasLine(b_state, 1)
    /\ ~HasLine(b_state, -1)

----------------------------------------------------------------------------
(* C9 *)

\* C9: Board.make_move(move) on a cell that is not Empty raises an error and
\* leaves the board state and current_player unchanged; on an Empty cell it
\* sets exactly that cell to the current player, leaves the other eight
\* cells unchanged and switches current_player to the other player.
C9_MakeMove ==
    b_last.op = "make_move" =>
        IF b_last.state[b_last.move + 1] # 0
        THEN /\ b_last.raised
             /\ b_state = b_last.state
             /\ b_current_player = b_last.player
        ELSE /\ ~b_last.raised
             /\ b_state[b_last.move + 1] = b_last.player
             /\ \A i \in Cells \ {b_last.move} :
                    b_state[i + 1] = b_last.state[i + 1]
             /\ b_current_player \in {-1, 1} \ {b_last.player}

\* make_move has just been refused on a cell the other player holds
C9_Witness ==
    /\ b_last.op = "make_move"
    /\ b_last.raised
    /\ b_state[b_last.move + 1] = -b_current_player

----------------------------------------------------------------------------
(* C10 *)

\* the Empty cells of b that complete a line holding exactly two marks of p
\* and one Empty cell
C10_Completing(b, p) ==
    { c \in EmptyCells(b) :
        \E l \in LineSets :
            /\ c \in l
            /\ Cardinality({ i \in l : b[i + 1] = p }) = 2
            /\ Cardinality({ i \in l : b[i + 1] = 0 }) = 1 }

\* C10: for every board and non-empty legal-move list,
\* ScriptedAgent.choose_action returns the Empty cell of a line with exactly
\* two PlayerA marks and one Empty cell if there is one; else the Empty cell
\* of a line with exactly two PlayerB marks and one Empty cell if there is
\* one; else cell 4 if it is Empty; else some legal move.  Board
\* [1,1,0,-1,-1,0,0,0,0] yields 2 and board [1,0,0,-1,-1,0,0,0,0] yields 5.
C10_ScriptedRules ==
    (calls # << >> /\ calls[1].fn = "choose_action"
        /\ calls[1].kind = "Scripted") =>
        LET b == calls[1].state
            a == calls[1].action
        IN  /\ IF C10_Completing(b, 1) # {} THEN a \in C10_Completing(b, 1)
               ELSE IF C10_Completing(b, -1) # {}
                    THEN a \in C10_Completing(b, -1)
               ELSE IF b[5] = 0 THEN a = 4
               ELSE a \in EmptyCells(b)
            /\ b = <<1, 1, 0, -1, -1, 0, 0, 0, 0>> => a = 2
            /\ b = <<1, 0, 0, -1, -1, 0, 0, 0, 0>> => a = 5

\* the Scripted agent was asked on [1,1,0,-1,-1,0,0,0,0] and answered 2
C10_Witness ==
    /\ calls # << >>
    /\ calls[1].fn = "choose_action"
    /\ calls[1].kind = "Scripted"
    /\ calls[1].state = <<1, 1, 0, -1, -1, 0, 0, 0, 0>>
    /\ ret = 2

----------------------------------------------------------------------------
(* C3, C4, C5: vocabulary *)

\* the table value of key k, an unseen key counting as 0
TableValue(q, k) == IF k \in DOMAIN q THEN q[k] ELSE Zero

\* the greatest value of a non-empty set of values
MaxOf(S) == CHOOSE v \in S : \A w \in S : ~RLess(v, w)

\* old + alpha * (target - old)
Blend(old, alpha, target) == RAdd(old, RMul(alpha, RSub(target, old)))

\* table q1 is table q0 with key k added or overwritten, and nothing else
\* created, changed or removed
OnlyKeyWritten(q0, q1, k) ==
    /\ DOMAIN q1 = (DOMAIN q0) \cup {k}
    /\ \A x \in (DOMAIN q0) \ {k} : q1[x] = q0[x]

\* the agent a logged call was made on
AgentOf(who) == IF who = "o" THEN agent_o ELSE agent_x

----------------------------------------------------------------------------
(* C3 *)

\* C3: QLearningAgent.update(state, move, reward, next_state, terminal) sets
\* Q(state, move) to old + alpha * (target - old), old being the current
\* value (0 if unseen) and target being reward when terminal, otherwise
\* reward + gamma * the maximum of Q(next_state, a) over all nine cell
\* indices a (unseen keys counting as 0, occupied cells included); no other
\* table entry is created, changed or removed.
C3_QUpdate ==
    \A i \in 1 .. Len(calls) :
        (calls[i].fn = "update" /\ calls[i].kind = "QLearning") =>
            LET c == calls[i]
                ag == AgentOf(c.who)
                k == <<c.state, c.action>>
                old == TableValue(c.before, k)
                best == MaxOf({ TableValue(c.before, <<c.next_state, a>>) :
                                  a \in Cells })
                target == IF c.done THEN c.reward
                          ELSE RAdd(c.reward, RMul(ag.gamma, best))
            IN  /\ ag.q_table[k] = Blend(old, ag.alpha, target)
                /\ OnlyKeyWritten(c.before, ag.q_table, k)

\* a non-terminal Q-Learning update whose next state has a negative value on
\* every Empty cell and a positive value on an occupied cell
C3_Witness ==
    /\ pc = "called"
    /\ calls # << >>
    /\ calls[1].fn = "update"
    /\ calls[1].kind = "QLearning"
    /\ ~calls[1].done
    /\ \A a \in EmptyCells(calls[1].next_state) :
           RLess(TableValue(calls[1].before, <<calls[1].next_state, a>>), Zero)
    /\ \E a \in Cells \ EmptyCells(calls[1].next_state) :
           RLess(Zero, TableValue(calls[1].before, <<calls[1].next_state, a>>))
    /\ <<calls[1].state, calls[1].action>> \in DOMAIN calls[1].before

----------------------------------------------------------------------------
(* C4 *)

\* C4: SARSAAgent.update(state, move, reward, next_state, next_move,
\* terminal) sets Q(state, move) to old + alpha * (target - old), target
\* being reward when terminal and reward + gamma * Q(next_state, next_move)
\* otherwise (unseen keys counting as 0); no other table entry is created,
\* changed or removed; and in the driver the next_move passed is an Empty
\* cell of next_state that the same agent's choose_action has just returned
\* for next_state in explore mode.
C4_SarsaUpdate ==
    \A i \in 1 .. Len(calls) :
        (calls[i].fn = "update" /\ calls[i].kind = "SARSA") =>
            LET c == calls[i]
                ag == AgentOf(c.who)
                k == <<c.state, c.action>>
                old == TableValue(c.before, k)
                next == TableValue(c.before, <<c.next_state, c.next_action>>)
                target == IF c.done THEN c.reward
                          ELSE RAdd(c.reward, RMul(ag.gamma, next))
            IN  /\ ag.q_table[k] = Blend(old, ag.alpha, target)
                /\ OnlyKeyWritten(c.before, ag.q_table, k)
                /\ c.who # "direct" =>
                       /\ c.next_action \in EmptyCells(c.next_state)
                       /\ i > 1
                       /\ calls[i - 1].fn = "choose_action"
                       /\ calls[i - 1].who = c.who
                       /\ calls[i - 1].kind = "SARSA"
                       /\ calls[i - 1].training
                       /\ calls[i - 1].state = c.next_state
                       /\ calls[i - 1].action = c.next_action
                       /\ calls[i - 1].before = c.before

\* the driver has made a SARSA update whose old value and whose next-move
\* value are both non-zero
C4_Witness ==
    \E i \in 1 .. Len(calls) :
        /\ calls[i].fn = "update"
        /\ calls[i].kind = "SARSA"
        /\ calls[i].who \in {"x", "o"}
        /\ TableValue(calls[i].before,
                      <<calls[i].next_state, calls[i].next_action>>) # Zero
        /\ TableValue(calls[i].before,
                      <<calls[i].state, calls[i].action>>) # Zero

----------------------------------------------------------------------------
(* C5 *)

\* the legal moves of board b whose table value in q is the greatest among
\* the legal moves
C5_TieSet(q, b) ==
    { a \in EmptyCells(b) :
        \A a2 \in EmptyCells(b) :
            ~RLess(TableValue(q, <<b, a>>), TableValue(q, <<b, a2>>)) }

\* C5: for a Q-Learning or SARSA agent, when the training flag is false or
\* epsilon = 0, choose_action on a state with a non-empty legal-move list
\* returns a legal move whose table value (0 if unseen) is the maximum over
\* the legal moves: each move of the tie set is a possible result and no
\* other move is (with a unique maximum, that move alone).
C5_GreedyChoice ==
    (/\ pc = "called"
     /\ calls # << >>
     /\ calls[1].fn = "choose_action"
     /\ calls[1].kind \in {"QLearning", "SARSA"}
     /\ (~calls[1].training \/ agent_x.epsilon = Zero)) =>
        /\ ret.result = calls[1].action
        /\ ret.result \in C5_TieSet(calls[1].before, calls[1].state)
        /\ ret.may = C5_TieSet(calls[1].before, calls[1].state)

\* a call with training on and epsilon = 0 on a state that has a negative
\* entry in the table and two tied best moves, the second of which came out
C5_Witness ==
    /\ pc = "called"
    /\ calls # << >>
    /\ calls[1].fn = "choose_action"
    /\ calls[1].kind = "QLearning"
    /\ calls[1].training
    /\ agent_x.epsilon = Zero
    /\ <<calls[1].state, 7>> \in DOMAIN calls[1].before
    /\ ret.may = {6, 8}
    /\ ret.result = 8

----------------------------------------------------------------------------
(* C11 *)

\* the Empty cells of b that complete a line holding exactly two marks of p
\* and one Empty cell
OwnWinningCells(b, p) ==
    { c \in EmptyCells(b) :
        \E l \in LineSets :
            /\ c \in l
            /\ Cardinality({ i \in l : b[i + 1] = p }) = 2
            /\ Cardinality({ i \in l : b[i + 1] = 0 }) = 1 }

\* C11: the Scripted agent wins if possible: in every episode, whenever it
\* is the turn of the Scripted agent seated as PlayerB (-1, agent_o) and
\* some line holds exactly two of its own marks and one Empty cell, the move
\* it plays completes a line of its own marks and ends the episode with the
\* Scripted agent as winner.
C11_ScriptedWinsIfPossible ==
    (/\ Moved
     /\ LastMover = -1
     /\ agent_o.kind = "Scripted"
     /\ OwnWinningCells(prev_board, -1) # {}) =>
        /\ action \in OwnWinningCells(prev_board, -1)
        /\ HasLine(board, -1)
        /\ done
        /\ winner = -1

----------------------------------------------------------------------------
(* C12 *)

\* the legal moves of board b that have the greatest table value in q among
\* the legal moves (an unseen key counting as 0)
GreedyMoves(q, b) ==
    { a \in EmptyCells(b) :
        \A a2 \in EmptyCells(b) :
            ~RLess(TableValue(q, <<b, a>>), TableValue(q, <<b, a2>>)) }

\* in a play_game(train=False) call no update has been called for the last
\* move and a learning agent's last move is a greedy move
C12_NoUpdateAndGreedy ==
    (pc \in {"loop", "returned"} /\ ~train) =>
        /\ \A i \in 1 .. Len(calls) : calls[i].fn # "update"
        /\ (Moved /\ IsLearner(LastAgent)) =>
               action \in GreedyMoves(LastAgent.q_table, prev_board)

\* no step of a play_game(train=False) call changes an agent
C12_TablesKept ==
    (pc' \in {"loop", "returned"} /\ ~train') =>
        (agent_x' = agent_x /\ agent_o' = agent_o)

\* C12: an evaluation game has no learning side effects:
\* play_game(train=False), for any pair of agents and any number of
\* consecutive games, never calls update, leaves every agent's table (keys
\* and values) as it was before the game, and every move of a learning agent
\* in such a game is a greedy move (no epsilon exploration).
C12_EvaluationSideEffectFree ==
    [] C12_NoUpdateAndGreedy /\ [][C12_TablesKept]_vars

\* in the second evaluation game in a row a trained Q-Learning agent as
\* PlayerA has opened in the centre and a trained SARSA agent as PlayerB has
\* answered in cell 8, the tables being the trained tables still
C12_Witness ==
    /\ ~train
    /\ pc = "loop"
    /\ games_played = 1
    /\ agent_x.kind = "QLearning"
    /\ agent_o.kind = "SARSA"
    /\ agent_x.q_table = TrainedTable
    /\ agent_o.q_table = TrainedTable
    /\ board = [CentreOpened EXCEPT ![9] = -1]

----------------------------------------------------------------------------
(* C13 *)

\* the learning agents among agent_x and agent_o
Learners == { ag \in {agent_x, agent_o} : IsLearner(ag) }

\* a newly created learning agent has an empty table; after a complete
\* training episode every learning agent has an entry; every key is a
\* (9-cell board, index 0..8) pair
C13_TableShape ==
    /\ (t_pc = "ready" /\ games_played = 0) =>
           \A ag \in Learners : DOMAIN ag.q_table = {}
    /\ (train /\ games_played >= 1) =>
           \A ag \in Learners : DOMAIN ag.q_table # {}
    /\ \A ag \in Learners :
           /\ \A k \in DOMAIN ag.q_table :
                  /\ k[1] \in AllBoards
                  /\ k[2] \in Cells
           /\ Cardinality(DOMAIN ag.q_table) <= 9 * (3 ^ 9)

\* no step removes a key from a table
C13_KeysKept ==
    /\ DOMAIN agent_x.q_table \subseteq DOMAIN agent_x'.q_table
    /\ DOMAIN agent_o.q_table \subseteq DOMAIN agent_o'.q_table

\* C13: a newly created Q-Learning or SARSA agent has an empty table; after
\* any single complete training episode the table of each learning agent
\* that moved holds at least one entry; across updates and episodes no key
\* is ever removed; every key is a (9-cell board, index 0..8) pair, so the
\* table never exceeds 9 * 3^9 entries.
C13_TableGrowsOnly ==
    [] C13_TableShape /\ [][C13_KeysKept]_vars

\* two training episodes are over and a SARSA agent's table holds more keys
\* than one episode can give it
C13_Witness ==
    /\ t_pc = "done"
    /\ games_played = 2
    /\ agent_x.kind = "SARSA"
    /\ Cardinality(DOMAIN agent_x.q_table) >= 5

----------------------------------------------------------------------------
(* C14 *)

\* the number of episodes of a window of c episodes that a rate stands for
WindowCount(rate, c) == (rate[1] * c) \div (100 * rate[2])

\* the sum of F(history[k]) over the records of history
RECURSIVE SumOver(_, _, _)
SumOver(h, c, which) ==
    IF h = << >> THEN 0
    ELSE LET r == h[Len(h)]
             n == CASE which = "x" -> WindowCount(r.x_win_rate, c)
                    [] which = "o" -> WindowCount(r.o_win_rate, c)
                    [] which = "d" -> WindowCount(r.draw_rate, c)
         IN  n + SumOver(SubSeq(h, 1, Len(h) - 1), c, which)

\* with a checkpoint interval C >= 1: the k-th record has episode index
\* k * C, its rates are whole counts out of C that add up to C (100%), the
\* records and the window counters together account for every counted
\* episode, floor(episode / C) records exist at the head of the loop and
\* after train, and the window counters hold episode mod C episodes (none
\* right after a checkpoint)
C14_HistoryShape ==
    (t_pc # "none" /\ checkpoint_interval >= 1) =>
        LET C == checkpoint_interval
        IN  /\ \A k \in 1 .. Len(history) :
                   LET r == history[k]
                       nx == WindowCount(r.x_win_rate, C)
                       no == WindowCount(r.o_win_rate, C)
                       nd == WindowCount(r.draw_rate, C)
                   IN  /\ r.episodes = k * C
                       /\ r.x_win_rate = Rat(100 * nx, C)
                       /\ r.o_win_rate = Rat(100 * no, C)
                       /\ r.draw_rate = Rat(100 * nd, C)
                       /\ nx >= 0 /\ no >= 0 /\ nd >= 0
                       /\ nx + no + nd = C
                       /\ RAdd(RAdd(r.x_win_rate, r.o_win_rate), r.draw_rate)
                              = Rat(100, 1)
            /\ t_pc \in {"loop", "done"} =>
                   /\ Len(history) = episode \div C
                   /\ temp_wins_x + temp_wins_o + temp_draws = episode % C
                   /\ SumOver(history, C, "x") + temp_wins_x = results.X_wins
                   /\ SumOver(history, C, "o") + temp_wins_o = results.O_wins
                   /\ SumOver(history, C, "d") + temp_draws = results.Draws
            /\ t_pc = "done" => Len(history) = episodes \div C

\* a record once appended is never changed or removed
C14_AppendOnly ==
    /\ Len(history') >= Len(history)
    /\ SubSeq(history', 1, Len(history)) = history

----------------------------------------------------------------------------
(* C15 *)

ResultsSum == results.X_wins + results.O_wins + results.Draws

\* the counters add up to the number of play_game calls that have returned
\* and been counted, and get_statistics reports that sum and the rates
C15_CountersAddUp ==
    /\ t_pc # "none" =>
           ResultsSum = (IF t_pc = "playing" /\ pc = "returned"
                         THEN games_played - 1 ELSE games_played)
    /\ t_pc = "reported" =>
           LET st == stats[1]
           IN  /\ st.total_games = ResultsSum
               /\ st.x_wins = results.X_wins
               /\ st.o_wins = results.O_wins
               /\ st.draws = results.Draws
               /\ ResultsSum = 0 =>
                      /\ st.x_win_rate = Zero
                      /\ st.o_win_rate = Zero
                      /\ st.draw_rate = Zero
               /\ ResultsSum > 0 =>
                      /\ st.x_win_rate = Rat(100 * results.X_wins, ResultsSum)
                      /\ st.o_win_rate = Rat(100 * results.O_wins, ResultsSum)
                      /\ st.draw_rate = Rat(100 * results.Draws, ResultsSum)

\* the step that counts a completed episode increments exactly the counter
\* of the outcome play_game returned, and no other step changes a counter
C15_OneCounterPerEpisode ==
    IF t_pc = "playing" /\ t_pc' # "playing"
    THEN /\ results'.X_wins = results.X_wins + (IF ret = 1 THEN 1 ELSE 0)
         /\ results'.O_wins = results.O_wins + (IF ret = -1 THEN 1 ELSE 0)
         /\ results'.Draws = results.Draws + (IF ret = 0 THEN 1 ELSE 0)
         /\ ret \in {1, -1, 0}
    ELSE results' = results

\* C15: during and after Trainer.train() every completed episode increments
\* exactly one of X_wins, O_wins, Draws (the one matching the outcome
\* play_game returned), so their sum always equals the number of completed
\* episodes; get_statistics reports total_games as that sum and, when no
\* game has been played, 0 for all three rates without a division error.
C15_ResultCounters ==
    [] C15_CountersAddUp /\ [][C15_OneCounterPerEpisode]_vars

\* get_statistics has answered for a Trainer that has played no game, with
\* all three rates 0
C15_Witness ==
    /\ t_pc = "reported"
    /\ games_played = 0
    /\ stats[1].total_games = 0
    /\ stats[1].x_win_rate = Zero
    /\ stats[1].draw_rate = Zero

----------------------------------------------------------------------------
(* C16 *)

\* a learning agent at work was constructed with an epsilon outside [0, 1]
EpsilonOutOfRange ==
    \E ag \in Learners : RLess(ag.epsilon, Zero) \/ RLess(One, ag.epsilon)

\* C16: degenerate configuration is rejected before any episode runs: a
\* training run with zero episodes requested, or with a learning agent
\* whose epsilon is outside [0, 1], ends in a configuration error: train
\* never reaches its loop, no episode is played and no table or statistics
\* change.
C16_DegenerateConfigRejected ==
    (t_pc # "none" /\ (episodes = 0 \/ EpsilonOutOfRange)) =>
        /\ t_pc \notin {"loop", "playing", "done"}
        /\ games_played = 0
        /\ pc = "idle"
        /\ results = NoResults
        /\ \A ag \in Learners : ag.q_table = EmptyTable

----------------------------------------------------------------------------
(* C18, C19, C20: vocabulary *)

\* the number of cells of board b that hold mark p
CountOf(b, p) == Cardinality({ i \in Cells : b[i + 1] = p })

\* the number of moves applied so far in the game
MovesMade == CountOf(board, 1) + CountOf(board, -1)

\* board b is terminal: a complete line or no Empty cell
Terminal(b) == HasLine(b, 1) \/ HasLine(b, -1) \/ IsFull(b)

----------------------------------------------------------------------------
(* C18 *)

\* C18: strict turn alternation in play_game: every episode starts from the
\* all-Empty board with PlayerA to move; in every reachable state the number
\* of PlayerA cells minus the number of PlayerB cells is 0 or 1; the mover
\* is PlayerA exactly when the two counts are equal; current_player is
\* switched after every applied move, the terminal move included, so after
\* play_game returns current_player is the opponent of the last mover.
C18_TurnAlternation ==
    /\ (pc = "loop" /\ ~Moved) => (board = EmptyBoard /\ current_player = 1)
    /\ CountOf(board, 1) - CountOf(board, -1) \in {0, 1}
    /\ current_player \in {1, -1}
    /\ (current_player = 1) <=> (CountOf(board, 1) = CountOf(board, -1))
    /\ Moved =>
           /\ board[action + 1] = -current_player
           /\ prev_board[action + 1] = 0
           /\ CountOf(prev_board, 1) = CountOf(prev_board, -1) =>
                  board[action + 1] = 1
           /\ CountOf(prev_board, 1) # CountOf(prev_board, -1) =>
                  board[action + 1] = -1
    /\ (pc = "returned") =>
           (Moved /\ done /\ current_player = -board[action + 1])

\* a second game on the same GameManager has begun, after a first game that
\* PlayerA ended, and PlayerA has made its first move
C18_Witness ==
    /\ games_played = 1
    /\ pc = "loop"
    /\ MovesMade = 1
    /\ CountOf(board, 1) = 1
    /\ current_player = -1

----------------------------------------------------------------------------
(* C19 *)

\* an episode ends after 5 to 9 applied moves, no move is applied to a
\* terminal board, the loop ends exactly when the board is terminal, and
\* play_game returns the terminal value
C19_EpisodeBounds ==
    /\ MovesMade <= NumCells
    /\ Moved => ~Terminal(prev_board)
    /\ pc = "loop" =>
           /\ done <=> Terminal(board)
           /\ done => winner \in {1, -1, 0}
           /\ ~done => available_moves(board) # << >>
    /\ (pc \in {"loop", "returned"} /\ done) =>
           (MovesMade >= 5 /\ MovesMade <= 9)
    /\ pc = "returned" =>
           /\ done
           /\ Terminal(board)
           /\ ret = winner
           /\ ret \in {1, -1, 0}
           /\ ret # None

\* C19: every episode played by play_game between non-human agents
\* terminates: from the empty board it reaches a terminal board after at
\* least 5 and at most 9 applied moves, no move is selected or applied once
\* check_winner has returned a terminal value, and play_game returns that
\* terminal value (1, -1 or 0, never None).
C19_EpisodeTerminates ==
    [] C19_EpisodeBounds /\ ((pc = "loop") ~> (pc = "returned"))

\* a game has returned after five moves, the shortest game there is
C19_Witness ==
    /\ pc = "returned"
    /\ MovesMade = 5
    /\ ret = 1

----------------------------------------------------------------------------
(* C20 *)

\* C20: in every board reachable during an episode at most one player has a
\* complete line, and a complete line belongs to the player who made the
\* last move: play_game returns 1 only after 5, 7 or 9 moves with an
\* all-PlayerA line present, -1 only after 6 or 8 moves with an all-PlayerB
\* line present, and 0 only after 9 moves with no complete line.
C20_LineOfLastMover ==
    /\ ~(HasLine(board, 1) /\ HasLine(board, -1))
    /\ \A p \in {1, -1} :
           HasLine(board, p) => (Moved /\ board[action + 1] = p)
    /\ pc = "returned" =>
           /\ ret = 1 => (MovesMade \in {5, 7, 9} /\ HasLine(board, 1))
           /\ ret = -1 => (MovesMade \in {6, 8} /\ HasLine(board, -1))
           /\ ret = 0 => (/\ MovesMade = 9
                          /\ ~HasLine(board, 1)
                          /\ ~HasLine(board, -1))

\* PlayerA has won with the ninth move, on a full board
C20_Witness ==
    /\ pc = "returned"
    /\ ret = 1
    /\ MovesMade = 9
    /\ HasLine(board, 1)
    /\ board[action + 1] = 1

----------------------------------------------------------------------------
(* C21 *)

\* the lines rows first, then columns, then the two diagonals
C21_RowsFirst ==
    << <<0, 1, 2>>, <<3, 4, 5>>, <<6, 7, 8>>, <<0, 3, 6>>, <<1, 4, 7>>,
       <<2, 5, 8>>, <<0, 4, 8>>, <<2, 4, 6>> >>

\* the lines row 0, column 0, row 1, column 1, row 2, column 2, then the two
\* diagonals
C21_RowColumnPairs ==
    << <<0, 1, 2>>, <<0, 3, 6>>, <<3, 4, 5>>, <<1, 4, 7>>, <<6, 7, 8>>,
       <<2, 5, 8>>, <<0, 4, 8>>, <<2, 4, 6>> >>

\* line l of b holds exactly two marks of p and one Empty cell
C21_Open(b, l, p) ==
    /\ Cardinality({ k \in 1 .. 3 : b[l[k] + 1] = p }) = 2
    /\ Cardinality({ k \in 1 .. 3 : b[l[k] + 1] = 0 }) = 1

\* the numbers of the lines of order that are open for p on b
C21_OpenLines(b, order, p) ==
    { i \in 1 .. Len(order) : C21_Open(b, order[i], p) }

\* the Empty cell of the first line of order that is open for p on b
C21_FirstOpenCell(b, order, p) ==
    LET i == CHOOSE n \in C21_OpenLines(b, order, p) :
                 \A m \in C21_OpenLines(b, order, p) : n <= m
        l == order[i]
    IN  CHOOSE c \in {l[1], l[2], l[3]} : b[c + 1] = 0

\* the answer of the Scripted agent under rule 1 (a line open for PlayerA)
\* or rule 2 (a line open for PlayerB) is the Empty cell of the first open
\* line of order
C21_FollowsOrder(order) ==
    (calls # << >> /\ calls[1].fn = "choose_action"
        /\ calls[1].kind = "Scripted") =>
        LET b == calls[1].state
            a == calls[1].action
        IN  IF C21_OpenLines(b, order, 1) # {}
            THEN a = C21_FirstOpenCell(b, order, 1)
            ELSE C21_OpenLines(b, order, -1) # {} =>
                     a = C21_FirstOpenCell(b, order, -1)

\* C21 as stated: when several lines qualify for the same Scripted rule (win
\* or block), ScriptedAgent.choose_action checks rows, then columns, then the
\* main diagonal, then the anti-diagonal, and returns the Empty cell of the
\* first qualifying line in the order row 0, row 1, row 2, column 0,
\* column 1, column 2, main diagonal, anti-diagonal.
C21_AsStated == C21_FollowsOrder(C21_RowsFirst)

\* C21: when several lines qualify for the same Scripted rule (rule 1: two
\* PlayerA marks and one Empty cell; rule 2: two PlayerB marks and one Empty
\* cell), ScriptedAgent.choose_action returns the Empty cell of the first
\* qualifying line in the order row 0, column 0, row 1, column 1, row 2,
\* column 2, main diagonal, anti-diagonal.
C21_RowAndColumnInTurn == C21_FollowsOrder(C21_RowColumnPairs)

\* the Scripted agent was asked on [1,0,0, 1,1,0, 0,0,0], where column 0,
\* row 1 and the main diagonal are open for PlayerA, and answered 6, the
\* Empty cell of column 0
C21_Witness ==
    /\ calls # << >>
    /\ calls[1].fn = "choose_action"
    /\ calls[1].kind = "Scripted"
    /\ calls[1].state = <<1, 0, 0, 1, 1, 0, 0, 0, 0>>
    /\ Cardinality(C21_OpenLines(calls[1].state, C21_RowColumnPairs, 1)) = 3
    /\ ret = 6

----------------------------------------------------------------------------
(* C22 *)

\* the agent of player p
C22_AgentOf(p) == IF p = 1 THEN agent_x ELSE agent_o

C22_SeatOf(p) == IF p = 1 THEN "x" ELSE "o"

\* every update call of the last loop iteration carries 0, 1/2 or 1
C22_RewardsPassed ==
    \A i \in 1 .. Len(calls) :
        IsUpdateCall(calls[i]) => calls[i].reward \in {Zero, Half, One}

\* the last move won the game: no update call was made for the other player
C22_LoserNotCalled ==
    (Moved /\ train /\ done /\ winner = LastMover) =>
        \A i \in 1 .. Len(calls) :
            IsUpdateCall(calls[i]) => calls[i].who = C22_SeatOf(LastMover)

\* no table holds a negative value
C22_NoNegativeEntry ==
    \A p \in {1, -1} :
        IsLearner(C22_AgentOf(p)) =>
            \A k \in DOMAIN C22_AgentOf(p).q_table :
                ~RLess(C22_AgentOf(p).q_table[k], Zero)

\* the loop iteration in which a player wins leaves the other player's agent,
\* its table included, as it was
C22_LoserTableKept ==
    [][ (pc = "loop" /\ ~done /\ done') =>
            /\ winner' = 1 => agent_o' = agent_o
            /\ winner' = -1 => agent_x' = agent_x ]_vars

\* C22: no update call ever carries a negative reward.  In any training
\* episode every reward the driver passes to a learning agent's update is 0,
\* 1/2 or 1, because only the mover is updated and a mover cannot lose on its
\* own move; when an episode ends with the opponent winning, the losing
\* learning agent receives no update for that outcome and the -1 computed for
\* it never reaches its table.
C22_NoNegativeUpdate ==
    /\ [](C22_RewardsPassed /\ C22_LoserNotCalled /\ C22_NoNegativeEntry)
    /\ C22_LoserTableKept

\* a training game has ended with PlayerB winning against a Q-Learning agent
\* whose earlier moves of the game were learned from: -1 was computed for it
\* and the last iteration made no update call
C22_Witness ==
    /\ pc = "returned"
    /\ train
    /\ ret = -1
    /\ reward_x = MinusOne
    /\ agent_x.kind = "QLearning"
    /\ DOMAIN agent_x.q_table # {}
    /\ UpdateCalls = << >>

----------------------------------------------------------------------------
(* C23 *)

\* every update call made for a SARSA agent in the last loop iteration has
\* terminal = false and reward = 0
C23_SarsaCalls ==
    \A i \in 1 .. Len(calls) :
        (IsUpdateCall(calls[i]) /\ calls[i].kind = "SARSA") =>
            /\ ~calls[i].done
            /\ calls[i].reward = Zero

\* every entry of a SARSA agent's table is 0
C23_SarsaTableZero ==
    \A ag \in {agent_x, agent_o} :
        ag.kind = "SARSA" =>
            \A k \in DOMAIN ag.q_table : ag.q_table[k] = Zero

\* C23: a SARSA agent that starts with an empty table never stores a
\* non-zero value.  In every training episode the driver calls
\* SARSAAgent.update only for non-terminal moves, so every call has
\* terminal = false and reward = 0, and after any number of training episodes
\* against any opponent every entry of the SARSA table equals exactly 0.
C23_SarsaLearnsNothing == C23_SarsaCalls /\ C23_SarsaTableZero

\* train() has returned after a SARSA agent as PlayerA won an episode, with
\* entries in its table
C23_Witness ==
    /\ t_pc = "done"
    /\ agent_x.kind = "SARSA"
    /\ results.X_wins >= 1
    /\ DOMAIN agent_x.q_table # {}

----------------------------------------------------------------------------
(* C24 *)

\* the player to move on board b in a game PlayerA opens
C24_ToMove(b) == IF CountOf(b, 1) = CountOf(b, -1) THEN 1 ELSE -1

\* the player of a logged seat
C24_PlayerOf(who) == IF who = "o" THEN -1 ELSE 1

\* board b after player p has marked cell a
C24_After(b, a, p) == [b EXCEPT ![a + 1] = p]

\* every update call made for a Q-Learning agent in the last loop iteration:
\* next_state is a board on which the opponent is to move, the table held no
\* key with that board, the bootstrap maximum over the nine cells was 0 and
\* the value written is old + alpha * (reward - old)
C24_QCalls ==
    \A i \in 1 .. Len(calls) :
        (IsUpdateCall(calls[i]) /\ calls[i].kind = "QLearning") =>
            LET c == calls[i]
                p == C24_PlayerOf(c.who)
                key == <<c.state, c.action>>
                old == TableValue(c.before, key)
            IN  /\ C24_ToMove(c.state) = p
                /\ C24_ToMove(c.next_state) = -p
                /\ \A k \in DOMAIN c.before : k[1] # c.next_state
                /\ MaxOf({ TableValue(c.before, <<c.next_state, a>>) :
                               a \in Cells }) = Zero
                /\ key \in DOMAIN AgentOf(c.who).q_table
                /\ AgentOf(c.who).q_table[key]
                       = Blend(old, AgentOf(c.who).alpha, c.reward)

\* the table of a Q-Learning agent seated as p: every key holds a board on
\* which p is to move, and the entry of every move that does not end the
\* episode is 0
C24_SeatTable(q, p) ==
    \A k \in DOMAIN q :
        /\ C24_ToMove(k[1]) = p
        /\ ~Terminal(C24_After(k[1], k[2], p)) => q[k] = Zero

\* C24: for a Q-Learning agent that starts with an empty table and plays a
\* single seat, the next_state of each of its transitions is a board on which
\* the opponent is to move, and no key with such a board is ever written to
\* its table; so the bootstrap term max_a Q(next_state, a) is 0 in every
\* update, every target equals the immediate reward, and after any number of
\* training episodes every table entry for a non-terminal move equals
\* exactly 0 (only entries for episode-ending moves can be non-zero).
C24_BootstrapAlwaysZero ==
    /\ C24_QCalls
    /\ agent_x.kind = "QLearning" => C24_SeatTable(agent_x.q_table, 1)
    /\ agent_o.kind = "QLearning" => C24_SeatTable(agent_o.q_table, -1)

\* train() has returned with a Q-Learning agent as PlayerA whose table holds
\* a non-zero entry for an episode-ending move and an entry for a
\* non-terminal move
C24_Witness ==
    /\ t_pc = "done"
    /\ agent_x.kind = "QLearning"
    /\ \E k \in DOMAIN agent_x.q_table :
           /\ Terminal(C24_After(k[1], k[2], 1))
           /\ agent_x.q_table[k] # Zero
    /\ \E k \in DOMAIN agent_x.q_table :
           ~Terminal(C24_After(k[1], k[2], 1))

====
